---- MODULE Spec2Model ----
(***************************************************************************)
(* A model of the qtable storage engine: the table-level data object       *)
(* (src/src/data_object.rs), its attribute indices (src/src/index.rs), the *)
(* database that routes commands to tables (src/src/database.rs) and the   *)
(* part of the parser that builds the records (src/src/parser.rs).         *)
(*                                                                         *)
(* Strings that are compared, measured or used as index keys are modelled  *)
(* as sequences of character codes ("a" is <<97>>); attribute and table    *)
(* names are TLA+ strings.  The data file of a table is the sequence of    *)
(* the records written to it; the byte position of an entry is the sum of  *)
(* the serialized lengths of the entries before it.                        *)
(***************************************************************************)
EXTENDS Integers, Sequences, FiniteSets, TLC

VARIABLES data_objects, files, last, databases, disk, lock, conn

vars == <<data_objects, files, last, databases, disk, lock, conn>>

\* the state of the network layer: the registry of databases, the database
\* directories on disk, the registry's RwLock and the connections
netvars == <<databases, disk, lock, conn>>

(***************************************************************************)
(* Bounds of the model.                                                    *)
(***************************************************************************)
\* largest number of records a data file holds
MaxLog == 3
\* a table is defined again only while none of its index files holds more
\* locators than this
MaxStale == 1
\* largest number of attributes of a record or an update given to the merge
MaxKeys == 2

(***************************************************************************)
(* Program constants.                                                      *)
(***************************************************************************)
OBJECT_ID == "object_id"

\* length of a hyphenated UUID string (uuid::Uuid::to_string)
UuidLen == 36
\* bincode's fixed-width encodings: u64 length prefix, u32 variant tag,
\* i64/f64 payload, one byte for a bool
LenPrefix == 8
VariantTag == 4
NumberBytes == 8
BoolBytes == 1

TableNames == {"user"}

NoTable == [none |-> "table"]
NoDir == [none |-> "dir"]

(***************************************************************************)
(* Character strings.                                                      *)
(***************************************************************************)
S_empty == << >>
S_a == <<97>>
S_u1 == <<117, 49>>
S_2 == <<50>>
S_b == <<98>>

\* the n-th generated identifier: 36 characters, hyphens at 9, 14, 19, 24
Uuid(n) ==
  [i \in 1..UuidLen |->
     IF i \in {9, 14, 19, 24} THEN 45
     ELSE IF i = UuidLen THEN 48 + n ELSE 48]

RECURSIVE IntToString(_)
IntToString(n) ==
  IF n < 10 THEN <<48 + n>>
  ELSE IntToString(n \div 10) \o <<48 + (n % 10)>>

(***************************************************************************)
(* parser.rs: the document values.                                         *)
(***************************************************************************)
StringValue(s) == [t |-> "String", s |-> s]
IntValue(n) == [t |-> "Int", n |-> n]
Data(k, v) == [key |-> k, value |-> v]

\* impl Display for DataObject
to_string(v) ==
  IF v.t = "String" THEN v.s ELSE IntToString(v.n)

Definition(type, indexed, optional) ==
  [data_type |-> type, indexed |-> indexed, optional |-> optional]

InsertData(object_id, table, data, active) ==
  [object_id |-> object_id, table |-> table, data |-> data, active |-> active]

(***************************************************************************)
(* bincode: the serialized length of a record.                             *)
(***************************************************************************)
ValueLen(v) ==
  IF v.t = "String" THEN VariantTag + LenPrefix + Len(v.s)
  ELSE VariantTag + VariantTag + NumberBytes

RECURSIVE DataSeqLen(_)
DataSeqLen(ds) ==
  IF ds = << >> THEN 0
  ELSE LenPrefix + Len(Head(ds).key) + ValueLen(Head(ds).value)
       + DataSeqLen(Tail(ds))

SerializedLen(rec) ==
  LenPrefix + Len(rec.object_id) + LenPrefix + Len(rec.table)
  + VariantTag + LenPrefix + DataSeqLen(rec.data) + BoolBytes

(***************************************************************************)
(* The data file: positions, end of file, reading a locator.               *)
(***************************************************************************)
IndexId(position, length) == [position |-> position, length |-> length]

\* an entry of the data file: the record written and the span of its bytes
Entry(position, rec) ==
  [position |-> position, length |-> SerializedLen(rec), rec |-> rec]

FileLen(dat) ==
  IF dat = << >> THEN 0
  ELSE dat[Len(dat)].position + dat[Len(dat)].length

LocatorOf(dat, i) == IndexId(dat[i].position, dat[i].length)

\* seek to position, read_exact length bytes, bincode::deserialize.
\* "Eof" is read_exact failing (the unwrap panics); "Deserialize" stands for
\* a span that is not the bytes of one record.
ReadAt(dat, id) ==
  IF id.position + id.length > FileLen(dat) THEN [kind |-> "Eof"]
  ELSE IF \E i \in 1..Len(dat) : LocatorOf(dat, i) = id
       THEN [kind |-> "Ok",
             rec |-> dat[CHOOSE i \in 1..Len(dat) : LocatorOf(dat, i) = id].rec]
       ELSE [kind |-> "Deserialize"]

(***************************************************************************)
(* index.rs: IndexImpl, a sorted map from key to a list of locators.       *)
(***************************************************************************)
EmptyIndex == << >>

\* an index file: absent, or holding the map that was saved last (a file
\* that was created and never written loads as the empty map)
NoFile == [exists |-> FALSE, map |-> EmptyIndex]
File(index_map) == [exists |-> TRUE, map |-> index_map]

Index_add_to_index_once(index_map, value, object_id) ==
  IF value \in DOMAIN index_map
  THEN IF \E i \in 1..Len(index_map[value]) : index_map[value][i] = object_id
       THEN index_map
       ELSE [index_map EXCEPT ![value] = Append(@, object_id)]
  ELSE index_map @@ (value :> <<object_id>>)

Index_add_to_index(index_map, value, object_id) ==
  IF value \in DOMAIN index_map
  THEN [index_map EXCEPT ![value] = Append(@, object_id)]
  ELSE index_map @@ (value :> <<object_id>>)

Index_remove_from_index_drop_key(index_map, value, object_id) ==
  IF value \in DOMAIN index_map
  THEN IF SelectSeq(index_map[value], LAMBDA id : id # object_id) = << >>
       THEN [k \in DOMAIN index_map \ {value} |-> index_map[k]]
       ELSE [index_map EXCEPT
               ![value] = SelectSeq(@, LAMBDA id : id # object_id)]
  ELSE index_map

Index_remove_from_index(index_map, value, object_id) ==
  IF value \in DOMAIN index_map
  THEN [index_map EXCEPT ![value] = SelectSeq(@, LAMBDA id : id # object_id)]
  ELSE index_map

Index_query_equal(index_map, value) ==
  IF value \in DOMAIN index_map THEN index_map[value] ELSE << >>

\* new_or_load: an absent or empty file gives an empty map, otherwise the
\* map that was saved last
new_or_load(idx_file) ==
  IF idx_file.exists THEN idx_file.map ELSE EmptyIndex

(***************************************************************************)
(* data_object.rs: NoSqlDataObject.  A table value tbl holds the fields of *)
(* the object (definition, index) and its files (dat, idx).                *)
(***************************************************************************)
Ok(tbl) == [ok |-> TRUE, tbl |-> tbl]
Err(kind, tbl) == [ok |-> FALSE, err |-> kind, tbl |-> tbl]

RECURSIVE SeqContains(_, _)
SeqContains(s, x) ==
  IF s = << >> THEN FALSE
  ELSE IF Head(s) = x THEN TRUE ELSE SeqContains(Tail(s), x)

\* Vec::dedup: removes consecutive repeated elements
RECURSIVE dedup(_)
dedup(s) ==
  IF Len(s) < 2 THEN s
  ELSE IF s[1] = s[2] THEN dedup(Tail(s))
       ELSE <<s[1]>> \o dedup(Tail(s))

Equal(attr, value) == [op |-> "Equal", attr |-> attr, value |-> value]
And(c1, c2) == [op |-> "And", left |-> c1, right |-> c2]
Or(c1, c2) == [op |-> "Or", left |-> c1, right |-> c2]

DO_query_equal(tbl, attr, value) ==
  IF attr \in DOMAIN tbl.index
  THEN Index_query_equal(tbl.index[attr], value)
  ELSE << >>

\* query whose And arm returns the left result without the retain
RECURSIVE query_and_keeps_left(_, _)
query_and_keeps_left(tbl, condition) ==
  CASE condition.op = "Equal" ->
         DO_query_equal(tbl, condition.attr, condition.value)
    [] condition.op = "And" -> query_and_keeps_left(tbl, condition.left)
    [] condition.op = "Or" ->
         dedup(query_and_keeps_left(tbl, condition.left)
                 \o query_and_keeps_left(tbl, condition.right))

RECURSIVE query(_, _)
query(tbl, condition) ==
  CASE condition.op = "Equal" ->
         DO_query_equal(tbl, condition.attr, condition.value)
    [] condition.op = "And" ->
         LET results2 == query(tbl, condition.right)
         IN SelectSeq(query(tbl, condition.left),
                      LAMBDA item : SeqContains(results2, item))
    [] condition.op = "Or" ->
         dedup(query(tbl, condition.left) \o query(tbl, condition.right))

get_attributes(data) == data

\* validate_index_data without the filter on undefined attributes: it accepts
\* every attribute list.
validate_index_data_accept_all(tbl, attributes) == TRUE

validate_index_data(tbl, attributes) ==
  \A i \in 1..Len(attributes) : attributes[i].key \in DOMAIN tbl.definition

\* add_to_index without index.save(): the index changes in memory only
RECURSIVE add_to_index_unsaved(_, _, _)
add_to_index_unsaved(tbl, index_data, index_id) ==
  IF index_data = << >> THEN tbl
  ELSE LET d == Head(index_data)
           t1 == IF d.key \in DOMAIN tbl.index
                 THEN [tbl EXCEPT !.index[d.key] =
                                    Index_add_to_index(@, to_string(d.value),
                                                       index_id)]
                 ELSE tbl
       IN add_to_index_unsaved(t1, Tail(index_data), index_id)

\* the index is changed and saved to its file after every single addition
RECURSIVE add_to_index(_, _, _)
add_to_index(tbl, index_data, index_id) ==
  IF index_data = << >> THEN tbl
  ELSE LET d == Head(index_data)
           t1 == IF d.key \in DOMAIN tbl.index
                 THEN LET m == Index_add_to_index(tbl.index[d.key],
                                                  to_string(d.value), index_id)
                      IN [tbl EXCEPT !.index[d.key] = m, !.idx[d.key] = File(m)]
                 ELSE tbl
       IN add_to_index(t1, Tail(index_data), index_id)

\* write_to_end: the position is the end of the file before the write
write_to_end(dat, rec) ==
  [position |-> FileLen(dat), dat |-> Append(dat, Entry(FileLen(dat), rec))]

insert_record(tbl, insert_data) ==
  LET w == write_to_end(tbl.dat, insert_data)
  IN [index_id |-> IndexId(w.position, SerializedLen(insert_data)),
      tbl |-> [tbl EXCEPT !.dat = w.dat]]

handle_insert(tbl, insert_data) ==
  LET attributes == get_attributes(insert_data.data)
  IN IF ~validate_index_data(tbl, attributes) THEN Err("Insert", tbl)
     ELSE LET r == insert_record(tbl, insert_data)
              indexed_attr ==
                SelectSeq(attributes,
                          LAMBDA att : att.key \in DOMAIN tbl.definition)
                \o <<Data(OBJECT_ID, StringValue(insert_data.object_id))>>
          IN Ok(add_to_index(r.tbl, indexed_attr, r.index_id))

\* compare_data_objects without the filter on the old attributes: every old
\* attribute is pushed after the new ones.
compare_data_objects_push_all(old_insert_data, new_insert_data) ==
  InsertData(new_insert_data.object_id, new_insert_data.table,
             new_insert_data.data \o old_insert_data.data,
             new_insert_data.active)

\* the merge of an old record and the update data
compare_data_objects(old_insert_data, new_insert_data) ==
  LET new_data_vec == new_insert_data.data
      missing_old_data ==
        SelectSeq(old_insert_data.data,
                  LAMBDA old_data :
                    ~\E i \in 1..Len(new_data_vec) :
                       new_data_vec[i].key = old_data.key)
  IN InsertData(new_insert_data.object_id, new_insert_data.table,
                new_data_vec \o missing_old_data, new_insert_data.active)

get_data_objects(dat, old_index_ids) ==
  [i \in 1..Len(old_index_ids) |-> ReadAt(dat, old_index_ids[i])]

\* outcome of reading a list of locators in order: the first one that cannot
\* be read decides ("Eof" panics, "Deserialize" is returned as an error)
ReadOutcome(reads) ==
  IF \A i \in 1..Len(reads) : reads[i].kind = "Ok" THEN "Ok"
  ELSE reads[CHOOSE i \in 1..Len(reads) :
               /\ reads[i].kind # "Ok"
               /\ \A j \in 1..(i - 1) : reads[j].kind = "Ok"].kind

RECURSIVE AppendAll(_, _)
AppendAll(dat, recs) ==
  IF recs = << >> THEN dat
  ELSE AppendAll(write_to_end(dat, Head(recs)).dat, Tail(recs))

\* seek_and_write on the handle update_record holds.  The handle is opened
\* with File::options().append(true) (l.543-545): in append mode every write
\* lands at the end of the file, whatever position was sought, so the
\* inactivated copy of the old record is added after the new records and
\* the bytes at the old position stay as they were.
seek_and_write_append(dat, position, rec) ==
  Append(dat, Entry(FileLen(dat), rec))

RECURSIVE InactivateAll(_, _)
InactivateAll(dat, old_data) ==
  IF old_data = << >> THEN dat
  ELSE InactivateAll(
         seek_and_write_append(dat, Head(old_data).id.position,
                               [Head(old_data).rec EXCEPT !.active = FALSE]),
         Tail(old_data))

\* precondition: every old locator reads as a record
update_record(tbl, old_index_ids, update_data) ==
  LET reads == get_data_objects(tbl.dat, old_index_ids)
      n == Len(old_index_ids)
      old_data == [i \in 1..n |-> [id |-> old_index_ids[i], rec |-> reads[i].rec]]
      data_to_save ==
        [i \in 1..n |-> compare_data_objects(reads[i].rec, update_data)]
      written == AppendAll(tbl.dat, data_to_save)
      index_ids ==
        [i \in 1..n |-> [id |-> LocatorOf(written, Len(tbl.dat) + i),
                         rec |-> data_to_save[i]]]
  IN [new_index_data |-> index_ids,
      old_index_data |-> old_data,
      tbl |-> [tbl EXCEPT !.dat = InactivateAll(written, old_data)]]

RECURSIVE remove_attributes(_, _, _)
remove_attributes(tbl, data, index_id) ==
  IF data = << >> THEN tbl
  ELSE LET d == Head(data)
           t1 == IF d.key \in DOMAIN tbl.index
                 THEN LET m == Index_remove_from_index(tbl.index[d.key],
                                                       to_string(d.value), index_id)
                      IN [tbl EXCEPT !.index[d.key] = m, !.idx[d.key] = File(m)]
                 ELSE tbl
       IN remove_attributes(t1, Tail(data), index_id)

RECURSIVE remove_old(_, _)
remove_old(tbl, old_index_data) ==
  IF old_index_data = << >> THEN tbl
  ELSE remove_old(remove_attributes(tbl, Head(old_index_data).rec.data,
                                    Head(old_index_data).id),
                  Tail(old_index_data))

RECURSIVE add_new(_, _)
add_new(tbl, new_index_data) ==
  IF new_index_data = << >> THEN tbl
  ELSE add_new(add_to_index(tbl, Head(new_index_data).rec.data,
                            Head(new_index_data).id),
               Tail(new_index_data))

\* an update_index that only adds: the edges of the old records stay
update_index_add_only(tbl, new_index_data, old_index_data) ==
  add_new(tbl, new_index_data)

\* update_index: the edges of the attributes of every old record are removed,
\* the edges of the attributes of every new record are added; the object_id
\* index is not touched ("TODO: Should add object_id to the index", l.205)
update_index(tbl, new_index_data, old_index_data) ==
  add_new(remove_old(tbl, old_index_data), new_index_data)

handle_update(tbl, update_data, filter) ==
  LET old_index_id == query(tbl, filter)
      updated_attributes == get_attributes(update_data.data)
  IN IF ~validate_index_data(tbl, updated_attributes) THEN Err("Insert", tbl)
     ELSE IF old_index_id = << >> THEN Err("Update(Data not found)", tbl)
     ELSE LET outcome == ReadOutcome(get_data_objects(tbl.dat, old_index_id))
          IN IF outcome = "Eof" THEN Err("Panic", tbl)
             ELSE IF outcome = "Deserialize"
               THEN Err("Update(Error getting old data)", tbl)
             ELSE LET r == update_record(tbl, old_index_id, update_data)
                  IN Ok(update_index(r.tbl, r.new_index_data, r.old_index_data))

\* seek_and_write on the handle delete_records holds.  The handle comes from
\* File::open (l.627), which opens the file read-only: the write fails and
\* the unwrap in seek_and_write panics before any byte of the file changed.
seek_and_write_readonly(dat, position, rec) == [ok |-> FALSE, dat |-> dat]

RECURSIVE delete_records(_, _, _)
delete_records(tbl, index_ids, deleted_data) ==
  IF index_ids = << >> THEN [ok |-> TRUE, deleted |-> deleted_data, tbl |-> tbl]
  ELSE LET index_id == Head(index_ids)
           read == ReadAt(tbl.dat, index_id)
       IN IF read.kind = "Eof" THEN Err("Panic", tbl)
          ELSE IF read.kind = "Deserialize" THEN Err("Deserialize", tbl)
          ELSE LET data_object == [read.rec EXCEPT !.active = FALSE]
                   w == seek_and_write_readonly(tbl.dat, index_id.position,
                                                data_object)
               IN IF ~w.ok THEN Err("Panic", [tbl EXCEPT !.dat = w.dat])
                  ELSE delete_records(
                         [tbl EXCEPT !.dat = w.dat], Tail(index_ids),
                         Append(deleted_data,
                                [rec |-> data_object, id |-> index_id]))

\* NoSqlDataObject::remove_from_index: the index is changed in memory and
\* is not saved
DO_remove_from_index(tbl, attribute, value, object_id) ==
  IF attribute \in DOMAIN tbl.index
  THEN [tbl EXCEPT !.index[attribute] =
                     Index_remove_from_index(@, value, object_id)]
  ELSE tbl

RECURSIVE remove_deleted(_, _)
remove_deleted(tbl, deleted_data) ==
  IF deleted_data = << >> THEN tbl
  ELSE remove_deleted(
         DO_remove_from_index(tbl, OBJECT_ID, Head(deleted_data).rec.object_id,
                              Head(deleted_data).id),
         Tail(deleted_data))

handle_delete(tbl, filter) ==
  LET index_ids == query(tbl, filter)
  IN IF index_ids = << >> THEN Err("Delete", tbl)
     ELSE LET r == delete_records(tbl, index_ids, << >>)
          IN IF r.ok THEN Ok(remove_deleted(r.tbl, r.deleted)) ELSE r

get_record(tbl, data_objects_ids) ==
  LET reads == get_data_objects(tbl.dat, data_objects_ids)
      outcome == ReadOutcome(reads)
  IN IF outcome = "Ok"
     THEN [ok |-> TRUE, data |-> [i \in 1..Len(reads) |-> reads[i].rec]]
     ELSE [ok |-> FALSE,
           err |-> IF outcome = "Eof" THEN "Panic" ELSE "Deserialize"]

DO_handle_query(tbl, condition) == get_record(tbl, query(tbl, condition))

(***************************************************************************)
(* Table creation.  dir is the table's directory as found on disk (NoDir   *)
(* when there is none).                                                    *)
(***************************************************************************)
AttrNames == {"id", "name", "age", "zip"}
IdxNames == AttrNames \cup {OBJECT_ID}

\* every attribute of the definition, whatever its indexed flag says
IndexedAttrs_every_attribute(definition) == DOMAIN definition

IndexedAttrs(definition) ==
  {a \in DOMAIN definition : definition[a].indexed}

\* File::create: the file is created, or truncated when it exists
create_data_file(dir) == << >>
create_object_id_idx(dir) == File(EmptyIndex)

DO_new(dir, definition) ==
  LET old_idx == IF dir = NoDir THEN [f \in IdxNames |-> NoFile] ELSE dir.idx
      idx == [f \in IdxNames |->
                IF f = OBJECT_ID THEN create_object_id_idx(dir)
                ELSE IF f \in IndexedAttrs(definition)
                     THEN File(new_or_load(old_idx[f]))
                     ELSE old_idx[f]]
      indices == [a \in IndexedAttrs(definition) \cup {OBJECT_ID} |->
                    idx[a].map]
  IN [definition |-> definition,
      index |-> indices,
      dat |-> create_data_file(dir),
      idx |-> idx]

\* NoSqlDataObject::load: the definition is read from the .def file, the
\* index of every indexed attribute and of object_id from its .idx file
\* (new_or_load creates a missing file); the data file is left as it is
DO_load(dir) ==
  LET definition == dir.def
      loaded == IndexedAttrs(definition) \cup {OBJECT_ID}
      idx == [f \in IdxNames |->
                IF f \in loaded THEN File(new_or_load(dir.idx[f]))
                ELSE dir.idx[f]]
  IN [definition |-> definition,
      index |-> [a \in loaded |-> idx[a].map],
      dat |-> dir.dat,
      idx |-> idx]

(***************************************************************************)
(* parser.rs: building the records of INSERT and UPDATE from their JSON.   *)
(* A JSON object is the sequence of its members in key order.              *)
(***************************************************************************)
JString(s) == [j |-> "string", s |-> s]
JNumber(n) == [j |-> "number", n |-> n]
Member(k, v) == [name |-> k, json |-> v]

HasMember(obj, k) == \E i \in 1..Len(obj) : obj[i].name = k
GetMember(obj, k) == obj[CHOOSE i \in 1..Len(obj) : obj[i].name = k].json

handle_object(obj) ==
  [i \in 1..Len(obj) |->
     Data(obj[i].name,
          IF obj[i].json.j = "string" THEN StringValue(obj[i].json.s)
          ELSE IntValue(obj[i].json.n))]

\* get_id: the string member "id", or a fresh UUID; fresh is what
\* Uuid::new_v4 returns
get_id(obj, fresh) ==
  IF HasMember(obj, "id")
  THEN IF GetMember(obj, "id").j = "string"
       THEN [ok |-> TRUE, id |-> GetMember(obj, "id").s]
       ELSE [ok |-> FALSE]
  ELSE [ok |-> TRUE, id |-> fresh]

parse_insert_command(table_name, obj, fresh) ==
  LET id == get_id(obj, fresh)
  IN IF id.ok
     THEN [ok |-> TRUE,
           insert_data |-> InsertData(id.id, table_name, handle_object(obj), TRUE)]
     ELSE [ok |-> FALSE]

parse_update_command(table_name, obj) ==
  InsertData(S_empty, table_name, handle_object(obj), TRUE)

(***************************************************************************)
(* database.rs: NoSqlDatabase.  data_objects is the map of the tables held *)
(* in memory, files the table directories on disk.                         *)
(***************************************************************************)
RData(data) == [t |-> "Data", data |-> data]
RError(context, err) == [t |-> "Error", context |-> context, err |-> err]
RTableNotFound(table) == [t |-> "Error", context |-> "Table not found", table |-> table]
RPanic == [t |-> "Panic"]

Exists(table) == data_objects[table] # NoTable

\* the table object together with its files
Tbl(table) ==
  [definition |-> data_objects[table].definition,
   index |-> data_objects[table].index,
   dat |-> files[table].dat,
   idx |-> files[table].idx]

Store(table, tbl) ==
  /\ data_objects' = [data_objects EXCEPT
                        ![table] = [definition |-> tbl.definition,
                                    index |-> tbl.index]]
  /\ files' = [files EXCEPT
                 ![table] = [def |-> tbl.definition, dat |-> tbl.dat,
                             idx |-> tbl.idx]]

\* the reply the database gives for the outcome r of a table operation
Reply(r, context, data) ==
  IF r.ok THEN RData(data)
  ELSE IF r.err = "Panic" THEN RPanic
  ELSE RError(context, r.err)

DB_handle_definition(table, definition) ==
  \E tbl \in {DO_new(files[table], definition)} :
     /\ Store(table, tbl)
     /\ last' = [op |-> "Define", table |-> table, existed |-> Exists(table),
                 arg |-> definition, resp |-> RData(<< >>)]

DB_handle_insert(insert_data) ==
  LET table == insert_data.table
  IN IF Exists(table)
     THEN \E r \in {handle_insert(Tbl(table), insert_data)} :
             /\ Store(table, r.tbl)
             /\ last' = [op |-> "Insert", table |-> table, existed |-> TRUE,
                         arg |-> insert_data,
                         resp |-> Reply(r, "inserting", <<insert_data>>)]
     ELSE /\ UNCHANGED <<data_objects, files>>
          /\ last' = [op |-> "Insert", table |-> table, existed |-> FALSE,
                      arg |-> insert_data, resp |-> RTableNotFound(table)]

DB_handle_update(update_data, filter) ==
  LET table == update_data.table
  IN IF Exists(table)
     THEN \E r \in {handle_update(Tbl(table), update_data, filter)} :
             /\ Store(table, r.tbl)
             /\ last' = [op |-> "Update", table |-> table, existed |-> TRUE,
                         arg |-> update_data, filter |-> filter,
                         resp |-> Reply(r, "updating", <<update_data>>)]
     ELSE /\ UNCHANGED <<data_objects, files>>
          /\ last' = [op |-> "Update", table |-> table, existed |-> FALSE,
                      arg |-> update_data, filter |-> filter,
                      resp |-> RTableNotFound(table)]

DB_handle_delete(table, filter) ==
  IF Exists(table)
  THEN \E r \in {handle_delete(Tbl(table), filter)} :
          /\ Store(table, r.tbl)
          /\ last' = [op |-> "Delete", table |-> table, existed |-> TRUE,
                      filter |-> filter,
                      resp |-> Reply(r, "deleting", << >>)]
  ELSE /\ UNCHANGED <<data_objects, files>>
       /\ last' = [op |-> "Delete", table |-> table, existed |-> FALSE,
                   filter |-> filter,
                   resp |-> RTableNotFound(table)]

\* handle_query: the value of the match on the table's result is dropped
\* (the statement ends in ";", l.195-198) and the function always ends in
\* the "not found" reply of l.200; the table's query has run before that
DB_handle_query(table, filter) ==
  \E panics \in {IF Exists(table)
                  THEN \E r \in {DO_handle_query(Tbl(table), filter)} :
                         ~r.ok /\ r.err = "Panic"
                  ELSE FALSE} :
     /\ UNCHANGED <<data_objects, files>>
     /\ last' = [op |-> "Select", table |-> table, existed |-> Exists(table),
                 filter |-> filter,
                 resp |-> IF panics THEN RPanic ELSE RTableNotFound(table)]

\* NoSqlDatabase::load: every directory under the database's path is loaded
\* as a table
DB_load ==
  \E loaded \in {[t \in TableNames |->
                     IF files[t] = NoDir THEN NoDir ELSE DO_load(files[t])]} :
    /\ data_objects' =
         [t \in TableNames |->
            IF loaded[t] = NoDir THEN NoTable
            ELSE [definition |-> loaded[t].definition,
                  index |-> loaded[t].index]]
    /\ files' =
         [t \in TableNames |->
            IF loaded[t] = NoDir THEN NoDir
            ELSE [def |-> files[t].def, dat |-> loaded[t].dat,
                  idx |-> loaded[t].idx]]

(***************************************************************************)
(* The commands a run draws from.                                          *)
(***************************************************************************)
SchemaA ==
  [a \in {"name", "age"} |->
     IF a = "name" THEN Definition("String", TRUE, FALSE)
     ELSE Definition("Number", FALSE, TRUE)]
SchemaB ==
  [a \in {"id", "name", "age"} |->
     IF a = "id" THEN Definition("String", FALSE, TRUE)
     ELSE IF a = "name" THEN Definition("String", TRUE, FALSE)
     ELSE Definition("Number", TRUE, TRUE)]
Schemas == {SchemaA, SchemaB}

InsertJson ==
  { <<Member("name", JString(S_a))>>,
    <<Member("id", JString(S_u1)), Member("name", JString(S_a))>>,
    <<Member("name", JString(S_a)), Member("zip", JNumber(1))>>,
    <<Member("id", JNumber(7)), Member("name", JString(S_a))>> }

UpdateJson ==
  { <<Member("age", JNumber(2))>>,
    <<Member("zip", JNumber(1))>> }

Leaves ==
  { Equal("name", S_a), Equal("age", S_2),
    Equal("id", S_u1), Equal(OBJECT_ID, S_u1) }

Conditions ==
  Leaves \cup
  { And(Equal("name", S_a), Equal("age", S_2)),
    Or(Equal("name", S_a), Equal("age", S_2)) }

\* the data file a command leaves is within the bound of the model
Room(table) ==
  IF files'[table] = NoDir THEN TRUE ELSE Len(files'[table].dat) <= MaxLog

RECURSIVE Locators(_, _)
Locators(index_map, keys) ==
  IF keys = {} THEN 0
  ELSE LET k == CHOOSE x \in keys : TRUE
       IN Len(index_map[k]) + Locators(index_map, keys \ {k})

\* no index file of the table holds more than MaxStale locators
FewLocators(table) ==
  IF files[table] = NoDir THEN TRUE
  ELSE \A f \in IdxNames :
         Locators(files[table].idx[f].map, DOMAIN files[table].idx[f].map)
           <= MaxStale

\* the identifiers stored in a table: Uuid::new_v4 returns none of them
UsedIds(table) ==
  IF files[table] = NoDir THEN {}
  ELSE {files[table].dat[i].rec.object_id : i \in 1..Len(files[table].dat)}

FreshUuid(table) ==
  Uuid(CHOOSE n \in 1..(MaxLog + 1) :
         /\ Uuid(n) \notin UsedIds(table)
         /\ \A m \in 1..(n - 1) : Uuid(m) \in UsedIds(table))

(***************************************************************************)
(* The connections of the server (network/server.rs, network/client.rs).  *)
(***************************************************************************)
Conns == {1, 2}
DbNames == {"a"}

\* a message of a client: the class of its text, the database it names and
\* its number among the messages of its connection
Message(kind, db, seq) == [kind |-> kind, db |-> db, seq |-> seq]
NoMsg == Message("None", "", 0)

\* the RwLock around the registry: the connection holding the write guard
\* (0 for none) and the connections holding read guards
Unlocked == [writer |-> 0, readers |-> {}]

\* a connection as Server::run hands it to Client::listen: waiting in
\* read_buf with an empty buffer
Accepted ==
  [pc |-> "read", buffer |-> << >>, cur |-> NoMsg, reply |-> "",
   inbox |-> << >>, outbox |-> << >>, sent |-> 0]

\* a server with the given database directories loaded and no traffic yet
Started(dirs) ==
  /\ databases = dirs
  /\ disk = dirs
  /\ lock = Unlocked
  /\ conn = [c \in Conns |-> Accepted]

(***************************************************************************)
(* The state machine: one action per command of handle_message.            *)
(***************************************************************************)
Init ==
  /\ data_objects = [t \in TableNames |-> NoTable]
  /\ files = [t \in TableNames |-> NoDir]
  /\ last = [op |-> "None"]
  /\ Started({})

Define ==
  \E table \in TableNames, definition \in Schemas :
    /\ FewLocators(table)
    /\ DB_handle_definition(table, definition)
    /\ UNCHANGED netvars

Insert ==
  \E table \in TableNames, obj \in InsertJson :
    /\ LET p == parse_insert_command(table, obj, FreshUuid(table))
       IN IF p.ok THEN DB_handle_insert(p.insert_data)
          ELSE /\ UNCHANGED <<data_objects, files>>
               /\ last' = [op |-> "Parse", table |-> table,
                           existed |-> Exists(table),
                           resp |-> RError("parsing", "InvalidValue")]
    /\ Room(table)
    /\ UNCHANGED netvars

Update ==
  \E table \in TableNames, obj \in UpdateJson, filter \in Conditions :
    /\ DB_handle_update(parse_update_command(table, obj), filter)
    /\ Room(table)
    /\ UNCHANGED netvars

Delete ==
  \E table \in TableNames, filter \in Conditions :
    /\ DB_handle_delete(table, filter)
    /\ UNCHANGED netvars

Select ==
  \E table \in TableNames, filter \in Conditions :
    /\ DB_handle_query(table, filter)
    /\ UNCHANGED netvars

\* the server starts again: load_databases builds every table of the
\* database from its directory
Load ==
  /\ DB_load
  /\ last' = [op |-> "Load"]
  /\ UNCHANGED netvars

Next == Define \/ Insert \/ Update \/ Delete \/ Select \/ Load

Spec == Init /\ [][Next]_vars

(***************************************************************************)
(* Properties.                                                             *)
(***************************************************************************)
Defined == {t \in TableNames : Exists(t)}
Log(t) == files[t].dat
Entries(t) == 1..Len(files[t].dat)
HasKey(data, k) == \E i \in 1..Len(data) : data[i].key = k
SameButActive(r1, r2) ==
  /\ r1.object_id = r2.object_id
  /\ r1.table = r2.table
  /\ r1.data = r2.data
UnknownAttribute(t, data) ==
  \E i \in 1..Len(data) : data[i].key \notin DOMAIN data_objects[t].definition

\* C1: for every record of the data log whose active flag is true and every
\* indexed attribute it carries, the index of that attribute holds, under the
\* string form of the value, a locator that reads back as exactly that record.
C1_IndexConsistency ==
  \A t \in Defined : \A i \in Entries(t) :
    LET R == Log(t)[i].rec
    IN R.active =>
         \A k \in 1..Len(R.data) :
           R.data[k].key \in IndexedAttrs(data_objects[t].definition) =>
             \E n \in 1..Len(DO_query_equal(Tbl(t), R.data[k].key,
                                            to_string(R.data[k].value))) :
               ReadAt(Log(t),
                      DO_query_equal(Tbl(t), R.data[k].key,
                                     to_string(R.data[k].value))[n])
                 = [kind |-> "Ok", rec |-> R]

\* C2: every record stored in the data log, active or not, has a locator in
\* the object_id index, under its object_id, that spans exactly its bytes.
C2_EveryRecordInObjectIdIndex ==
  \A t \in Defined : \A i \in Entries(t) :
    SeqContains(DO_query_equal(Tbl(t), OBJECT_ID, Log(t)[i].rec.object_id),
                LocatorOf(Log(t), i))

\* C3: no two records of a table with active = true share an object_id.
C3_ActiveObjectIdUnique ==
  \A t \in Defined : \A i, j \in Entries(t) :
    (i # j /\ Log(t)[i].rec.active /\ Log(t)[j].rec.active)
      => Log(t)[i].rec.object_id # Log(t)[j].rec.object_id

\* C4: an Insert whose object_id is already present in the object_id index of
\* the table is rejected with an Insert error and changes neither the data
\* log nor any index.
C4_DuplicateIdRejected ==
  [][(/\ last'.op = "Insert"
      /\ Exists(last'.table)
      /\ DO_query_equal(Tbl(last'.table), OBJECT_ID, last'.arg.object_id)
           # << >>)
       => (/\ last'.resp = RError("inserting", "Insert")
           /\ UNCHANGED <<data_objects, files>>)]_vars

\* C5: an Insert whose data has an attribute that is not in the schema of the
\* table fails with an Insert error, and the data log and every index, in
\* memory and on disk, stay as they were.
C5_UnknownAttributeRejected ==
  [][(/\ last'.op = "Insert"
      /\ Exists(last'.table)
      /\ UnknownAttribute(last'.table, last'.arg.data))
       => (/\ last'.resp = RError("inserting", "Insert")
           /\ UNCHANGED <<data_objects, files>>)]_vars

\* C5 witness: an Insert with an attribute outside the schema was answered
\* with the Insert error on a table that already holds a record.
C5_Witness ==
  /\ last.op = "Insert"
  /\ Exists(last.table)
  /\ UnknownAttribute(last.table, last.arg.data)
  /\ last.resp = RError("inserting", "Insert")
  /\ Len(Log(last.table)) > 0

\* C6: the data log is append-only: its length never decreases, and the span
\* of every record written earlier stays where it was, its bytes changing at
\* most in the active flag.
C6_AppendOnly ==
  [][\A t \in TableNames :
       files[t] # NoDir =>
         /\ files'[t] # NoDir
         /\ FileLen(files'[t].dat) >= FileLen(files[t].dat)
         /\ Len(files'[t].dat) >= Len(files[t].dat)
         /\ \A i \in 1..Len(files[t].dat) :
              /\ LocatorOf(files'[t].dat, i) = LocatorOf(files[t].dat, i)
              /\ SameButActive(files'[t].dat[i].rec, files[t].dat[i].rec)]_vars

\* the table object and its files after a step
TblNext(table) ==
  [definition |-> data_objects'[table].definition,
   index |-> data_objects'[table].index,
   dat |-> files'[table].dat,
   idx |-> files'[table].idx]

\* the records a Select by object_id returns from a table
SelectById(tbl, id) == DO_handle_query(tbl, Equal(OBJECT_ID, id))
Returns(tbl, R) ==
  /\ SelectById(tbl, R.object_id).ok
  /\ \E n \in 1..Len(SelectById(tbl, R.object_id).data) :
       SameButActive(SelectById(tbl, R.object_id).data[n], R)

\* C7: a record accepted by Insert is returned, equal in object_id, table and
\* data, by every later Select by its object_id: the Select right after the
\* Insert returns it, and a record a Select returns is still returned after
\* any further command.
C7_RoundTrip ==
  [][/\ (last'.op = "Insert" /\ last'.resp.t = "Data")
          => Returns(TblNext(last'.table), last'.arg)
     /\ \A t \in TableNames : Exists(t) =>
          \A i \in Entries(t) :
            Returns(Tbl(t), Log(t)[i].rec)
              => (Exists(t)' /\ Returns(TblNext(t), Log(t)[i].rec))]_vars

\* C8: for Select, Insert, Update and Delete the reply is "Table <t> not
\* found" exactly when the table is not among the tables of the database.
C8_TableNotFoundIffAbsent ==
  last.op \in {"Select", "Insert", "Update", "Delete"}
    => ((last.resp = RTableNotFound(last.table)) <=> ~last.existed)

\* C9: a Define for a table name that already exists returns an Error and
\* leaves the schema, the data log and the indices of the table unchanged.
C9_RedefineRejected ==
  [][(last'.op = "Define" /\ Exists(last'.table))
       => (last'.resp.t = "Error" /\ UNCHANGED <<data_objects, files>>)]_vars

\* C10: an INSERT whose JSON has a string id and otherwise only attributes of
\* the schema is accepted on a table whose schema does not define id: the
\* reply is Data([record]) and the record is stored under that object_id.
C10_InsertWithIdAccepted ==
  (/\ last.op = "Insert"
   /\ last.existed
   /\ HasKey(last.arg.data, "id")
   /\ "id" \notin DOMAIN data_objects[last.table].definition
   /\ \A k \in 1..Len(last.arg.data) :
        last.arg.data[k].key # "id"
          => last.arg.data[k].key \in DOMAIN data_objects[last.table].definition)
    => (/\ last.resp = RData(<<last.arg>>)
        /\ \E i \in Entries(last.table) :
             Log(last.table)[i].rec = last.arg)

\* the active records of a table's data log
ActiveRecords(t) == {Log(t)[i].rec : i \in {j \in Entries(t) : Log(t)[j].rec.active}}

\* C11: a DELETE whose filter is id = 'v', on a table that holds an active
\* record with object_id v, resolves to that record and is answered Data([]).
C11_DeleteByIdSucceeds ==
  [][(/\ last'.op = "Delete"
      /\ Exists(last'.table)
      /\ last'.filter.op = "Equal"
      /\ last'.filter.attr = "id"
      /\ \E R \in ActiveRecords(last'.table) :
           R.object_id = last'.filter.value)
       => last'.resp = RData(<< >>)]_vars

\* the locators an Update or Delete resolves its filter to, before the step
Matched == query(Tbl(last'.table), last'.filter)

\* C12: after a successful Update whose filter resolved to n old locators,
\* the record read at each old locator is the old record with active = false,
\* and exactly n records, all active, were appended to the log.
C12_UpdateSupersedes ==
  [][(/\ last'.op = "Update"
      /\ Exists(last'.table)
      /\ last'.resp.t = "Data")
       => (/\ \A n \in 1..Len(Matched) :
                ReadAt(files'[last'.table].dat, Matched[n])
                  = [kind |-> "Ok",
                     rec |-> [ReadAt(Log(last'.table), Matched[n]).rec
                                EXCEPT !.active = FALSE]]
           /\ Len(files'[last'.table].dat)
                = Len(Log(last'.table)) + Len(Matched)
           /\ \A i \in (Len(Log(last'.table)) + 1)
                         ..Len(files'[last'.table].dat) :
                files'[last'.table].dat[i].rec.active)]_vars

(***************************************************************************)
(* The merge of Update on its own: compare_data_objects applied to every   *)
(* old record and update payload with at most MaxKeys attributes each.     *)
(* Attribute lists come from JSON objects, so their keys are distinct.     *)
(***************************************************************************)
MergeKeys == {"name", "age", "zip"}
MergeValues == {StringValue(S_a), IntValue(2)}
Keys(data) == {data[i].key : i \in 1..Len(data)}
ValueOf(data, k) == data[CHOOSE i \in 1..Len(data) : data[i].key = k].value
DataLists ==
  UNION {{d \in [1..n -> {Data(k, v) : k \in MergeKeys, v \in MergeValues}] :
            \A i, j \in 1..n : i # j => d[i].key # d[j].key} : n \in 0..MaxKeys}
OldRecords == {InsertData(S_u1, "user", d, TRUE) : d \in DataLists}
UpdateRecords == {InsertData(S_empty, "user", d, TRUE) : d \in DataLists}

\* one merge per run: the function keeps no state between two calls
Merge ==
  \E old \in OldRecords, new \in UpdateRecords :
    /\ last.op = "None"
    /\ last' = [op |-> "Merge", old |-> old, new |-> new,
                merged |-> compare_data_objects(old, new)]
    /\ UNCHANGED <<data_objects, files>>
    /\ UNCHANGED netvars

MergeNext == Merge

SpecMerge == Init /\ [][MergeNext]_vars

\* C13: the merged record has exactly the keys of the old record united with
\* the keys of the update, each key once; a key of the update has the
\* update's value and a key only the old record has keeps the old value.
C13_UpdateMerge ==
  last.op = "Merge" =>
    /\ Keys(last.merged.data) = Keys(last.old.data) \cup Keys(last.new.data)
    /\ Len(last.merged.data) = Cardinality(Keys(last.merged.data))
    /\ \A k \in Keys(last.new.data) :
         ValueOf(last.merged.data, k) = ValueOf(last.new.data, k)
    /\ \A k \in Keys(last.old.data) \ Keys(last.new.data) :
         ValueOf(last.merged.data, k) = ValueOf(last.old.data, k)

\* C13 witness: a merge where one key is in both with different values, one
\* key only in the old record and one key only in the update.
C13_Witness ==
  /\ last.op = "Merge"
  /\ \E k \in Keys(last.old.data) \cap Keys(last.new.data) :
       ValueOf(last.old.data, k) # ValueOf(last.new.data, k)
  /\ Keys(last.old.data) \ Keys(last.new.data) # {}
  /\ Keys(last.new.data) \ Keys(last.old.data) # {}
  /\ Len(last.merged.data) = 3

\* C14: an Update whose filter resolves to no locator fails with
\* Update("Data not found"), whatever the update payload is, and leaves the
\* data log and every index as they were.
C14_UpdateNoMatch ==
  [][(/\ last'.op = "Update"
      /\ Exists(last'.table)
      /\ Matched = << >>)
       => (/\ last'.resp = RError("updating", "Update(Data not found)")
           /\ UNCHANGED <<data_objects, files>>)]_vars

\* the locators of Matched as a set, and the index map of attribute a of
\* table t before and after the step
MatchedSet == {Matched[n] : n \in 1..Len(Matched)}
IndexOf(t, a) == data_objects[t].index[a]
IndexOfNext(t, a) == data_objects'[t].index[a]

\* C15: a Delete whose filter resolves to records of the log succeeds: every
\* matched record is rewritten at its position with active = false and the
\* same length, the object_id index loses exactly the locators of the
\* matched records, and every attribute index and every other record stay
\* as they were.
C15_DeleteFrame ==
  [][(/\ last'.op = "Delete"
      /\ Exists(last'.table)
      /\ Matched # << >>
      /\ \A l \in MatchedSet : ReadAt(Log(last'.table), l).kind = "Ok")
       => LET t == last'.table
          IN /\ last'.resp = RData(<< >>)
             /\ Len(files'[t].dat) = Len(Log(t))
             /\ \A i \in Entries(t) :
                  /\ LocatorOf(files'[t].dat, i) = LocatorOf(Log(t), i)
                  /\ files'[t].dat[i].rec =
                       IF LocatorOf(Log(t), i) \in MatchedSet
                       THEN [Log(t)[i].rec EXCEPT !.active = FALSE]
                       ELSE Log(t)[i].rec
             /\ DOMAIN IndexOfNext(t, OBJECT_ID) \subseteq DOMAIN IndexOf(t, OBJECT_ID)
             /\ \A k \in DOMAIN IndexOfNext(t, OBJECT_ID) :
                  IndexOfNext(t, OBJECT_ID)[k] =
                    SelectSeq(IndexOf(t, OBJECT_ID)[k],
                              LAMBDA l : l \notin MatchedSet)
             /\ \A a \in DOMAIN data_objects[t].index \ {OBJECT_ID} :
                  IndexOfNext(t, a) = IndexOf(t, a)]_vars

\* record R carries attribute attr with a value whose string form is value
Satisfies(R, attr, value) ==
  \E k \in 1..Len(R.data) :
    R.data[k].key = attr /\ to_string(R.data[k].value) = value

\* C16: a Select with a leaf predicate on an indexed attribute returns
\* exactly the records with active = true whose string-form value of the
\* attribute satisfies the predicate, each once.
C16_LeafSelectsActive ==
  (/\ last.op = "Select"
   /\ last.existed
   /\ last.filter.op = "Equal"
   /\ last.filter.attr \in IndexedAttrs(data_objects[last.table].definition))
    => LET t == last.table
           ids == query(Tbl(t), last.filter)
       IN /\ DO_handle_query(Tbl(t), last.filter).ok
          /\ {ids[n] : n \in 1..Len(ids)} =
               {LocatorOf(Log(t), i) :
                  i \in {j \in Entries(t) :
                           /\ Log(t)[j].rec.active
                           /\ Satisfies(Log(t)[j].rec, last.filter.attr,
                                        last.filter.value)}}
          /\ \A m, n \in 1..Len(ids) : m # n => ids[m] # ids[n]

(***************************************************************************)
(* Queries on their own: a table with the schema SchemaB that only takes   *)
(* inserts, over two names and an optional age, and selects with every     *)
(* And / Or of two leaf conditions.                                        *)
(***************************************************************************)
QueryInsertJson ==
  { <<Member("name", JString(S_a))>>,
    <<Member("age", JNumber(2)), Member("name", JString(S_a))>>,
    <<Member("age", JNumber(2)), Member("name", JString(S_b))>> }

QueryLeaves == {Equal("name", S_a), Equal("name", S_b), Equal("age", S_2)}

QueryConditions ==
  QueryLeaves \cup {And(l, r) : l, r \in QueryLeaves}
              \cup {Or(l, r) : l, r \in QueryLeaves}

\* the state after DEFINE user with SchemaB on an empty database
QueryInit ==
  \E tbl \in {DO_new(NoDir, SchemaB)} :
    /\ data_objects = [t \in TableNames |->
                         [definition |-> tbl.definition, index |-> tbl.index]]
    /\ files = [t \in TableNames |->
                  [def |-> tbl.definition, dat |-> tbl.dat, idx |-> tbl.idx]]
    /\ last = [op |-> "Define", table |-> "user", existed |-> FALSE,
               arg |-> SchemaB, resp |-> RData(<< >>)]
    /\ Started({})

QueryInsert ==
  \E table \in TableNames, obj \in QueryInsertJson :
    /\ DB_handle_insert(
         parse_insert_command(table, obj, FreshUuid(table)).insert_data)
    /\ Room(table)
    /\ UNCHANGED netvars

QuerySelect ==
  \E table \in TableNames, filter \in QueryConditions :
    /\ DB_handle_query(table, filter)
    /\ UNCHANGED netvars

QueryNext == QueryInsert \/ QuerySelect

SpecQuery == QueryInit /\ [][QueryNext]_vars

\* what the table's query resolves the last Select's filter and its two
\* sides to
Result == query(Tbl(last.table), last.filter)
ResultL == query(Tbl(last.table), last.filter.left)
ResultR == query(Tbl(last.table), last.filter.right)

\* C17: Query(And(L, R)) is the locators of Query(L) that also occur in
\* Query(R), in the order they have in Query(L).
C17_AndIntersects ==
  (last.op = "Select" /\ last.filter.op = "And")
    => Result = SelectSeq(ResultL,
                          LAMBDA l : \E n \in 1..Len(ResultR) : ResultR[n] = l)

\* C17 witness: a Select with And whose left side resolves to three
\* locators of which the right side holds two, not adjacent in the left.
C17_Witness ==
  /\ last.op = "Select"
  /\ last.filter.op = "And"
  /\ Len(ResultL) = 3
  /\ Result = <<ResultL[1], ResultL[3]>>
  /\ ResultL[1] # ResultL[3]

\* s without the elements that occurred earlier in it
RECURSIVE KeepFirst(_)
KeepFirst(s) ==
  IF s = << >> THEN << >>
  ELSE LET front == KeepFirst(SubSeq(s, 1, Len(s) - 1))
           x == s[Len(s)]
       IN IF \E n \in 1..Len(front) : front[n] = x THEN front
          ELSE Append(front, x)

\* C18: Query(Or(L, R)) is the concatenation of Query(L) and Query(R) with
\* every duplicate removed, the first occurrence kept: each locator of
\* either side appears, and none appears more than once.
C18_OrDeduplicates ==
  (last.op = "Select" /\ last.filter.op = "Or")
    => /\ Result = KeepFirst(ResultL \o ResultR)
       /\ \A m, n \in 1..Len(Result) : m # n => Result[m] # Result[n]

\* C19: in every state of a table, after it was created, after it was
\* loaded and after any Insert, Update or Delete, the keys of its index map
\* are object_id and the schema attributes with indexed = true, no others.
C19_IndexKeySet ==
  \A t \in Defined :
    DOMAIN data_objects[t].index =
      {OBJECT_ID} \cup {a \in DOMAIN data_objects[t].definition :
                          data_objects[t].definition[a].indexed}

\* C19 witness: a table was loaded whose log holds a record with an
\* attribute the schema does not index.
C19_Witness ==
  /\ last.op = "Load"
  /\ \E t \in Defined : \E i \in Entries(t) : \E k \in 1..Len(Log(t)[i].rec.data) :
       LET a == Log(t)[i].rec.data[k].key
       IN /\ a \in DOMAIN data_objects[t].definition
          /\ ~data_objects[t].definition[a].indexed
          /\ a \notin DOMAIN data_objects[t].index

\* C20: after every completed command, loading the data directory again
\* gives the same tables with the same schemas and index maps equal to the
\* index maps in memory.
C20_ReloadEqualsMemory ==
  \A t \in TableNames :
    /\ (files[t] = NoDir) <=> ~Exists(t)
    /\ Exists(t) =>
         /\ DO_load(files[t]).definition = data_objects[t].definition
         /\ DO_load(files[t]).index = data_objects[t].index

\* C20 witness: an Update has succeeded on a table whose name index and
\* object_id index both hold locators.
C20_Witness ==
  /\ last.op = "Update"
  /\ last.resp.t = "Data"
  /\ DOMAIN IndexOf(last.table, "name") # {}
  /\ DOMAIN IndexOf(last.table, OBJECT_ID) # {}
  /\ DO_load(files[last.table]).index = data_objects[last.table].index

\* ---------------------------------------------------------------------
\* The index file, byte for byte (index.rs): save serialises the map with
\* bincode and replaces the file's content; new_or_load reads it back.
\* A u64 is written here as one element and a string as its length
\* followed by its bytes.

\* BTreeMap<String, _> iterates its keys in byte order
LexLess(s, t) ==
  \E i \in 1..(Len(s) + 1) :
    /\ \A j \in 1..(i - 1) : j <= Len(t) /\ s[j] = t[j]
    /\ IF i > Len(s) THEN Len(t) >= i
       ELSE i <= Len(t) /\ s[i] < t[i]

RECURSIVE SortedKeys(_)
SortedKeys(keys) ==
  IF keys = {} THEN << >>
  ELSE LET first == CHOOSE k \in keys : \A o \in keys \ {k} : LexLess(k, o)
       IN <<first>> \o SortedKeys(keys \ {first})

RECURSIVE write_locators(_)
write_locators(ids) ==
  IF ids = << >> THEN << >>
  ELSE <<Head(ids).position, Head(ids).length>> \o write_locators(Tail(ids))

RECURSIVE write_entries(_, _)
write_entries(index_map, keys) ==
  IF keys = << >> THEN << >>
  ELSE LET k == Head(keys)
       IN <<Len(k)>> \o k \o <<Len(index_map[k])>>
          \o write_locators(index_map[k])
          \o write_entries(index_map, Tail(keys))

\* bincode::serialize of the map: entry count, then the entries in key order
serialize(index_map) ==
  <<Cardinality(DOMAIN index_map)>>
  \o write_entries(index_map, SortedKeys(DOMAIN index_map))

\* save: set_len(0), seek to 0, write the serialised map
save(index_map) == serialize(index_map)

read_locators_reversed(buffer, at, n) ==
  [i \in 1..n |->
     IndexId(buffer[at + 2 * (n - i)], buffer[at + 2 * (n - i) + 1])]

\* n locators starting at buffer[at], in the order they were written
read_locators(buffer, at, n) ==
  [i \in 1..n |-> IndexId(buffer[at + 2 * (i - 1)], buffer[at + 2 * (i - 1) + 1])]

RECURSIVE read_entries(_, _, _, _)
read_entries(buffer, at, n, index_map) ==
  IF n = 0 THEN index_map
  ELSE LET klen == buffer[at]
           k == SubSeq(buffer, at + 1, at + klen)
           count == buffer[at + klen + 1]
           ids == read_locators(buffer, at + klen + 2, count)
       IN read_entries(buffer, at + klen + 2 + 2 * count, n - 1,
                       (k :> ids) @@ index_map)

\* bincode::deserialize::<BTreeMap<String, Vec<IndexId>>>
deserialize(buffer) == read_entries(buffer, 2, buffer[1], EmptyIndex)

\* new_or_load on an existing file: a file of length 0 is a new index,
\* anything else is deserialised
load(buffer) == IF Len(buffer) = 0 THEN EmptyIndex ELSE deserialize(buffer)

\* the index maps of the runs: up to MaxLocs locators under each key, a key
\* whose locators were all removed keeps an empty list
MaxLocs == 2
IndexKeys == {S_a, S_b, S_u1}
IndexLocators == {IndexId(0, 1), IndexId(1, 1)}
LocatorLists ==
  UNION {[1..n -> IndexLocators] : n \in 0..MaxLocs}
IndexMaps ==
  UNION {[ks -> LocatorLists] : ks \in SUBSET IndexKeys}

\* one save of an index followed by one open of the file it wrote
SaveOpen ==
  /\ last.op = "None"
  /\ \E index_map \in IndexMaps :
       last' = [op |-> "SaveOpen", index_map |-> index_map,
                file |-> save(index_map),
                loaded |-> load(save(index_map))]
  /\ UNCHANGED <<data_objects, files>>
  /\ UNCHANGED netvars

IndexNext == SaveOpen

SpecIndex == Init /\ [][IndexNext]_vars

\* C21: after a save, opening the file gives a map with the same keys and,
\* under each key, the same locators in the same order; a key that was
\* never added is absent from the opened map.
C21_SaveOpenRoundTrip ==
  last.op = "SaveOpen" =>
    /\ DOMAIN last.loaded = DOMAIN last.index_map
    /\ \A k \in DOMAIN last.index_map :
         /\ Len(last.loaded[k]) = Len(last.index_map[k])
         /\ \A i \in 1..Len(last.index_map[k]) :
              last.loaded[k][i] = last.index_map[k][i]
    /\ \A k \in IndexKeys \ DOMAIN last.index_map :
         Index_query_equal(last.loaded, k) = << >>

\* two keys saved out of insertion order, two different locators under one
\* of them, a third key never added
C21_Witness ==
  /\ last.op = "SaveOpen"
  /\ DOMAIN last.index_map = {S_u1, S_a}
  /\ last.index_map[S_u1] = <<IndexId(1, 1), IndexId(0, 1)>>
  /\ last.index_map[S_a] = <<IndexId(0, 1)>>
  /\ Len(last.file) > 0

(***************************************************************************)
(* Client::listen and its handlers (network/client.rs).  A client's       *)
(* message is one of the classes of text the loop tells apart; every      *)
(* read_buf returns one message, which the loop appends to what is still  *)
(* in its buffer.  Each await of a handler is a step of its own, so the   *)
(* connections interleave as the tasks of the runtime do.                 *)
(***************************************************************************)
\* messages the clients send in one run, all connections together
MaxMsgs == 2

storevars == <<data_objects, files, last>>

\* commands whose handler takes databases.write()
WriteOps == {"Insert", "Update", "Delete", "Define"}

\* classes of message text: "CREATE a"; a CREATE without a name of letters;
\* text without ':'; "a: <text no parser accepts>"; "a: ALTER" or "a: DROP";
\* the five commands of a database
Kinds ==
  {"Create", "BadCreate", "NoColon", "Unknown", "Alter", "Select"}
  \cup WriteOps

\* what a parser returns: Ok(value) or Err(error)
Parsed(value) == [ok |-> TRUE, value |-> value]
Failed(error) == [ok |-> FALSE, err |-> error]

\* message.starts_with(CREATE): decided by the oldest text in the buffer
starts_with_CREATE(buffer) == Head(buffer).kind \in {"Create", "BadCreate"}

\* parse_create_command: the keyword, blanks, then a name of letters; text
\* after the name is not looked at, and text appended to a CREATE that has
\* no such name does not give it one
parse_create_command(buffer) ==
  IF Head(buffer).kind = "Create" THEN Parsed(Head(buffer).db)
  ELSE Failed("ParseError")

\* message.find(':')
find_colon(buffer) == Head(buffer).kind # "NoColon"

\* parser::handle_message: ALTER and DROP reach todo!(), an unknown keyword
\* or a command its parser rejects is an Err, the rest is a command
handle_message(buffer) ==
  IF Head(buffer).kind = "Alter" THEN Failed("Panic")
  ELSE IF Head(buffer).kind = "Unknown" THEN Failed("ParseError")
  ELSE Parsed(Head(buffer))

read_buf_newest(inbox) == inbox[Len(inbox)]

\* reader.read_buf: the bytes of the stream in the order they were sent
read_buf(inbox) == Head(inbox)

guard_of_shared(kind) == "read"

\* the guard a handler takes: databases.read() in handle_select,
\* databases.write() in the other four
guard_of(kind) == IF kind = "Select" THEN "read" ELSE "write"

\* tokio's RwLock: a write guard excludes every other guard
can_read(l) == l.writer = 0
can_write(l) == l.writer = 0 /\ l.readers = {}
acquire(l, c, mode) ==
  IF mode = "write" THEN [l EXCEPT !.writer = c]
  ELSE [l EXCEPT !.readers = @ \cup {c}]
\* a guard that is never dropped
release_kept(l, c) == l

release(l, c) ==
  [writer |-> IF l.writer = c THEN 0 ELSE l.writer, readers |-> l.readers \ {c}]

TotalSent == conn[1].sent + conn[2].sent

\* the first part of the loop body: from read_buf to the first await of
\* the handler chosen
dispatch(got, buffer) ==
  IF starts_with_CREATE(buffer)
  THEN IF parse_create_command(buffer).ok
       THEN [got EXCEPT !.buffer = buffer, !.pc = "create_check"]
       ELSE [got EXCEPT !.buffer = buffer]
  ELSE IF ~find_colon(buffer)
  THEN [got EXCEPT !.buffer = << >>]
  ELSE LET command == handle_message(buffer)
       IN IF command.ok
          THEN [got EXCEPT !.buffer = buffer, !.pc = "lock"]
          ELSE IF command.err = "Panic"
          THEN [got EXCEPT !.buffer = << >>, !.pc = "closed"]
          ELSE [got EXCEPT !.buffer = << >>]

\* a client sends a message
Send(c) ==
  \E kind \in Kinds, db \in DbNames :
    /\ TotalSent < MaxMsgs
    /\ conn' = [conn EXCEPT ![c] =
                  [@ EXCEPT !.sent = @ + 1,
                            !.inbox = Append(@, Message(kind, db, conn[c].sent + 1))]]
    /\ UNCHANGED <<databases, disk, lock>>
    /\ UNCHANGED storevars

Read(c) ==
  /\ conn[c].pc = "read"
  /\ conn[c].inbox # << >>
  /\ LET m == read_buf(conn[c].inbox)
         got == [conn[c] EXCEPT
                   !.inbox = SelectSeq(@, LAMBDA x : x # m), !.cur = m]
     IN conn' = [conn EXCEPT ![c] = dispatch(got, Append(conn[c].buffer, m))]
  /\ UNCHANGED <<databases, disk, lock>>
  /\ UNCHANGED storevars

\* CREATE: the registry is looked up under a read guard; the guard is
\* dropped before NoSqlDatabase::new, kept while "already exists" is written
CreateCheck(c) ==
  /\ conn[c].pc = "create_check"
  /\ can_read(lock)
  /\ IF parse_create_command(conn[c].buffer).value \in databases
     THEN /\ lock' = acquire(lock, c, "read")
          /\ conn' = [conn EXCEPT ![c] =
                        [@ EXCEPT !.pc = "write", !.buffer = << >>,
                                  !.reply = "Database already exists"]]
     ELSE /\ lock' = lock
          /\ conn' = [conn EXCEPT ![c] = [@ EXCEPT !.pc = "create_new"]]
  /\ UNCHANGED <<databases, disk>>
  /\ UNCHANGED storevars

\* NoSqlDatabase::new, path.exists(): an existing path is an Err, which the
\* loop logs
NewExists(c) ==
  /\ conn[c].pc = "create_new"
  /\ IF parse_create_command(conn[c].buffer).value \in disk
     THEN conn' = [conn EXCEPT ![c] =
                     [@ EXCEPT !.pc = "read", !.buffer = << >>]]
     ELSE conn' = [conn EXCEPT ![c] = [@ EXCEPT !.pc = "create_dir"]]
  /\ UNCHANGED <<databases, disk, lock>>
  /\ UNCHANGED storevars

\* NoSqlDatabase::new, create_dir_all
CreateDir(c) ==
  /\ conn[c].pc = "create_dir"
  /\ disk' = disk \cup {parse_create_command(conn[c].buffer).value}
  /\ conn' = [conn EXCEPT ![c] = [@ EXCEPT !.pc = "register"]]
  /\ UNCHANGED <<databases, lock>>
  /\ UNCHANGED storevars

\* the new database is put into the registry under a write guard
Register(c) ==
  /\ conn[c].pc = "register"
  /\ can_write(lock)
  /\ lock' = acquire(lock, c, "write")
  /\ databases' = databases \cup {parse_create_command(conn[c].buffer).value}
  /\ conn' = [conn EXCEPT ![c] =
                [@ EXCEPT !.pc = "write", !.buffer = << >>,
                          !.reply = "Database created"]]
  /\ UNCHANGED disk
  /\ UNCHANGED storevars

\* handle_select / handle_insert / handle_update / handle_delete /
\* handle_definition: take the guard and look the database up
Acquire(c) ==
  /\ conn[c].pc = "lock"
  /\ IF guard_of(conn[c].cur.kind) = "write" THEN can_write(lock)
     ELSE can_read(lock)
  /\ lock' = acquire(lock, c, guard_of(conn[c].cur.kind))
  /\ IF conn[c].cur.db \in databases
     THEN conn' = [conn EXCEPT ![c] = [@ EXCEPT !.pc = "exec"]]
     ELSE conn' = [conn EXCEPT ![c] =
                     [@ EXCEPT !.pc = "write", !.reply = "No Records found"]]
  /\ UNCHANGED <<databases, disk>>
  /\ UNCHANGED storevars

\* the command runs on the database
Exec(c) ==
  /\ conn[c].pc = "exec"
  /\ conn' = [conn EXCEPT ![c] = [@ EXCEPT !.pc = "write", !.reply = "response"]]
  /\ UNCHANGED <<databases, disk, lock>>
  /\ UNCHANGED storevars

\* writer.write_all completes; the handler returns, which drops its guard,
\* and the loop clears the buffer
Write(c) ==
  /\ conn[c].pc = "write"
  /\ conn' = [conn EXCEPT ![c] =
                [@ EXCEPT !.pc = "read", !.buffer = << >>, !.reply = "",
                          !.outbox = Append(@, [seq |-> conn[c].cur.seq,
                                                 text |-> conn[c].reply])]]
  /\ lock' = release(lock, c)
  /\ UNCHANGED <<databases, disk>>
  /\ UNCHANGED storevars

\* the server starts on a data directory with or without databases
NetInit ==
  /\ data_objects = [t \in TableNames |-> NoTable]
  /\ files = [t \in TableNames |-> NoDir]
  /\ last = [op |-> "None"]
  /\ \E dirs \in SUBSET DbNames : Started(dirs)

NetSend == \E c \in Conns : Send(c)
NetRead == \E c \in Conns : Read(c)
NetCreateCheck == \E c \in Conns : CreateCheck(c)
NetNewExists == \E c \in Conns : NewExists(c)
NetCreateDir == \E c \in Conns : CreateDir(c)
NetRegister == \E c \in Conns : Register(c)
NetAcquire == \E c \in Conns : Acquire(c)
NetExec == \E c \in Conns : Exec(c)
NetWrite == \E c \in Conns : Write(c)

NetNext ==
  NetSend \/ NetRead \/ NetCreateCheck \/ NetNewExists \/ NetCreateDir
  \/ NetRegister \/ NetAcquire \/ NetExec \/ NetWrite

SpecNet == NetInit /\ [][NetNext]_vars

\* the positions in a connection's outbox of the replies to its message seq
RepliesTo(c, seq) ==
  {i \in 1..Len(conn[c].outbox) : conn[c].outbox[i].seq = seq}

\* the connection is back in read_buf after the message cur
Handled(c) == conn[c].pc = "read" /\ conn[c].cur # NoMsg

\* C22: every CREATE message is answered exactly once, with "Database
\* created" (the registry then holds the database), with "Database already
\* exists", or with an error string when the creation failed.  (Stated for
\* a well-formed CREATE that was alone in the buffer.)
C22_CreateAnswered ==
  \A c \in Conns :
    (Handled(c) /\ conn[c].cur.kind = "Create" /\ conn[c].buffer = << >>) =>
      /\ Cardinality(RepliesTo(c, conn[c].cur.seq)) = 1
      /\ \A i \in RepliesTo(c, conn[c].cur.seq) :
           /\ conn[c].outbox[i].text \in
                {"Database created", "Database already exists", "error"}
           /\ conn[c].outbox[i].text = "Database created"
                => conn[c].cur.db \in databases

\* the connection's command is running on its database
Executing(c) == conn[c].pc = "exec"

\* C23: two commands never run on the same database at the same time unless
\* both are Selects: Insert, Update, Delete and Define exclude one another
\* and exclude Select.
C23_MutualExclusion ==
  \A c1, c2 \in Conns :
    (c1 # c2 /\ Executing(c1) /\ Executing(c2)
     /\ conn[c1].cur.db = conn[c2].cur.db)
      => (conn[c1].cur.kind = "Select" /\ conn[c2].cur.kind = "Select")

\* an Insert runs while the Select of another connection on the same
\* database waits for its guard
C23_Witness ==
  \E c1, c2 \in Conns :
    /\ Executing(c1) /\ conn[c1].cur.kind = "Insert"
    /\ conn[c2].pc = "lock" /\ conn[c2].cur.kind = "Select"
    /\ conn[c2].cur.db = conn[c1].cur.db
    /\ lock.writer = c1

\* the connection holds a guard of the registry's lock
HoldsGuard(c) == lock.writer = c \/ c \in lock.readers

\* C24: no lock is held across connection I/O: while a connection writes a
\* reply to its socket it holds no guard of the registry's lock.
C24_NoGuardWhileWriting ==
  \A c \in Conns : conn[c].pc = "write" => ~HoldsGuard(c)

\* the message seq of every reply in an outbox, in the order written
Tags(outbox) == [i \in 1..Len(outbox) |-> outbox[i].seq]

\* C25: a connection takes its messages up in the order they were sent,
\* and a reply is written while its message is the one being processed:
\* replies carry increasing message numbers, none beyond the message the
\* connection is at, and the next message is taken up only with no reply
\* pending.
C25_InOrder ==
  [][\A c \in Conns :
       /\ conn'[c].cur # conn[c].cur =>
            /\ conn'[c].cur.seq = conn[c].cur.seq + 1
            /\ conn[c].pc = "read" /\ conn[c].reply = ""
       /\ conn'[c].outbox # conn[c].outbox =>
            /\ Len(conn'[c].outbox) = Len(conn[c].outbox) + 1
            /\ SubSeq(conn'[c].outbox, 1, Len(conn[c].outbox)) = conn[c].outbox
            /\ conn'[c].outbox[Len(conn'[c].outbox)].seq = conn[c].cur.seq
            /\ \A i \in 1..Len(conn[c].outbox) :
                 conn[c].outbox[i].seq < conn[c].cur.seq]_vars

\* a connection has answered its first message and is about to write the
\* reply to its second
C25_Witness ==
  \E c \in Conns :
    /\ conn[c].cur.seq = 2
    /\ conn[c].pc = "write"
    /\ Tags(conn[c].outbox) = <<1>>

\* C26: a message `<db> : <inner command>` whose inner command does not
\* parse is answered: once the loop is done with it, the connection's
\* outbox holds a reply to it.
C26_ParseErrorAnswered ==
  \A c \in Conns :
    (Handled(c) /\ conn[c].cur.kind = "Unknown" /\ conn[c].buffer = << >>)
      => RepliesTo(c, conn[c].cur.seq) # {}

\* C27: a message never closes the connection and leaves nothing behind:
\* the connection stays open, and when it waits for its next message the
\* buffer is empty, so that the next message is parsed by itself.
C27_MalformedLeavesNoTrace ==
  \A c \in Conns :
    /\ conn[c].pc # "closed"
    /\ conn[c].pc = "read" => conn[c].buffer = << >>

(***************************************************************************)
(* The WHERE clause (parser.rs): parse_condition and what parse_select,   *)
(* parse_delete_command and parse_update_command do with its result.  The *)
(* text is a sequence of tokens separated by blanks: a simple term        *)
(* `field op value`, AND, OR, the two parentheses, or another word.       *)
(***************************************************************************)
\* most terms in a condition of the runs
MaxTerms == 3

Token(kind, field, sym, value) ==
  [kind |-> kind, field |-> field, sym |-> sym, value |-> value]
Term(field, sym, value) == Token("term", field, sym, value)
Word(kind) == Token(kind, "", "", << >>)
LPAREN == Word("(")
RPAREN == Word(")")

\* `a = 1`, `b = 2`, `c >= 3`
Terms == {Term("a", "=", <<49>>), Term("b", "=", <<50>>), Term("c", ">=", <<51>>)}

\* the Condition variant of each operator of parse_simple_condition
Variant(sym) ==
  CASE sym = "=" -> "Equal"
    [] sym = ">=" -> "GreaterThanOrEqual"
    [] sym = ">" -> "GreaterThan"
    [] sym = "<=" -> "LessThanOrEqual"
    [] sym = "<" -> "LessThan"
    [] OTHER -> "WildCard"

\* the outcome of a nom parser: the Condition and the input left over
Done(cond, rest) == [ok |-> TRUE, cond |-> cond, rest |-> rest]
Error(rest) == [ok |-> FALSE, cond |-> Word("none"), rest |-> rest]

parse_simple_condition(input) ==
  IF input # << >> /\ Head(input).kind = "term"
  THEN Done([op |-> Variant(Head(input).sym), attr |-> Head(input).field,
             value |-> Head(input).value],
            Tail(input))
  ELSE Error(input)

RECURSIVE fold_right(_, _)
fold_right(first, conditions) ==
  IF conditions = << >> THEN first
  ELSE IF Head(conditions).op = "AND"
  THEN And(first, fold_right(Head(conditions).next, Tail(conditions)))
  ELSE Or(first, fold_right(Head(conditions).next, Tail(conditions)))

\* conditions.into_iter().fold(first_condition, ..)
RECURSIVE fold(_, _)
fold(first, conditions) ==
  IF conditions = << >> THEN first
  ELSE IF Head(conditions).op = "AND"
  THEN fold(And(first, Head(conditions).next), Tail(conditions))
  ELSE fold(Or(first, Head(conditions).next), Tail(conditions))

RECURSIVE parse_condition(_)
RECURSIVE parse_complex_condition(_)
RECURSIVE many0(_, _)

\* many0(tuple((AND | OR, parse_complex_condition))): stops, keeping what it
\* has, at the first pair that does not parse
many0(input, conditions) ==
  IF input # << >> /\ Head(input).kind \in {"AND", "OR"}
  THEN LET next == parse_complex_condition(Tail(input))
       IN IF next.ok
          THEN many0(next.rest,
                     Append(conditions,
                            [op |-> Head(input).kind, next |-> next.cond]))
          ELSE [conditions |-> conditions, rest |-> input]
  ELSE [conditions |-> conditions, rest |-> input]

parse_condition(input) ==
  LET first == parse_complex_condition(input)
  IN IF ~first.ok THEN first
     ELSE LET more == many0(first.rest, << >>)
          IN Done(fold(first.cond, more.conditions), more.rest)

\* the parentheses are recognised only when the whole input left starts
\* with '(' and ends with ')'
parse_complex_condition(input) ==
  IF input # << >> /\ Head(input) = LPAREN /\ input[Len(input)] = RPAREN
  THEN parse_condition(SubSeq(input, 2, Len(input) - 1))
  ELSE parse_simple_condition(input)

\* extract_json is multispace1: it needs a blank at the start of its input
extract_json(input) ==
  IF input # << >> /\ Head(input).kind = "blank" THEN Done(Word("none"), Tail(input))
  ELSE Error(input)

\* the part of parse_select and of parse_delete_command after WHERE: the
\* input that parse_condition leaves over is dropped
parse_select(table, input) ==
  LET parsed == parse_condition(input)
  IN IF parsed.ok
     THEN Parsed([table_name |-> table, filter |-> parsed.cond])
     ELSE Failed("Could not parse condition")

parse_delete_command(table, input) ==
  LET parsed == parse_condition(input)
  IN IF parsed.ok
     THEN Parsed([table_name |-> table, filter |-> parsed.cond])
     ELSE Failed("Could not parse condition")

\* the part of parse_update_command after WHERE and remove_white_spaces:
\* extract_json is tried on the condition before parse_condition
parse_update_where(table, input) ==
  IF ~extract_json(input).ok THEN Failed("Could not parse JSON")
  ELSE LET parsed == parse_condition(input)
       IN IF parsed.ok
          THEN Parsed([table_name |-> table, filter |-> parsed.cond])
          ELSE Failed("Could not parse condition")

parse_where(verb, table, input) ==
  IF verb = "SELECT" THEN parse_select(table, input)
  ELSE IF verb = "DELETE" THEN parse_delete_command(table, input)
  ELSE parse_update_where(table, input)

\* the texts of the runs: terms joined by AND / OR ...
RECURSIVE Chains(_)
Chains(n) ==
  IF n = 1 THEN {<<t>> : t \in Terms}
  ELSE {c \o <<Word(op), t>> : c \in Chains(n - 1), op \in {"AND", "OR"}, t \in Terms}

FlatInputs == UNION {Chains(n) : n \in 1..MaxTerms}

TermCount(chain) == (Len(chain) + 1) \div 2

\* ... with the terms i..j enclosed in parentheses (<<0, 0>>: none) ...
Groups(chain) ==
  {<<0, 0>>} \cup {<<i, j>> : i \in 1..TermCount(chain), j \in 1..TermCount(chain)}
Grouped(chain, g) ==
  IF g = <<0, 0>> THEN chain
  ELSE IF g[1] > g[2] THEN chain
  ELSE SubSeq(chain, 1, 2 * g[1] - 2) \o <<LPAREN>>
       \o SubSeq(chain, 2 * g[1] - 1, 2 * g[2] - 1) \o <<RPAREN>>
       \o SubSeq(chain, 2 * g[2], Len(chain))

\* ... and followed by nothing, by a word that is no connective, or by
\* such words and terms (`a = 1 and b = 2`, `a = 1 and b = 2 and c >= 3`)
Tails ==
  {<< >>, <<Word("and")>>, <<Word("and"), Term("b", "=", <<50>>)>>,
   <<Word("and"), Term("b", "=", <<50>>),
     Word("and"), Term("c", ">=", <<51>>)>>}

Verbs == {"SELECT", "DELETE", "UPDATE"}

ParseWhere ==
  /\ last.op = "None"
  /\ \E verb \in Verbs, chain \in FlatInputs, tail \in Tails :
       \E g \in {x \in Groups(chain) : x = <<0, 0>> \/ x[1] <= x[2]} :
         last' = [op |-> "ParseWhere", verb |-> verb, chain |-> chain,
                  group |-> g, tail |-> tail,
                  input |-> Grouped(chain, g) \o tail,
                  result |-> parse_where(verb, "user", Grouped(chain, g) \o tail)]
  /\ UNCHANGED <<data_objects, files>>
  /\ UNCHANGED netvars

ParseNext == ParseWhere

SpecParse == Init /\ [][ParseNext]_vars

\* the terms of a chain as Conditions, and its connectives
TermsOf(chain) ==
  [k \in 1..TermCount(chain) |-> parse_simple_condition(<<chain[2 * k - 1]>>).cond]
OpsOf(chain) == [k \in 1..(TermCount(chain) - 1) |-> chain[2 * k].kind]

\* op(n-1)(... op2(op1(t1, t2), t3) ..., tn)
RECURSIVE LeftNested(_, _)
LeftNested(ts, ops) ==
  IF Len(ts) = 1 THEN ts[1]
  ELSE LET n == Len(ts)
           inner == LeftNested(SubSeq(ts, 1, n - 1), SubSeq(ops, 1, n - 2))
       IN IF ops[n - 1] = "AND" THEN And(inner, ts[n]) ELSE Or(inner, ts[n])

\* C28: simple terms t1..tn joined by AND / OR parse to the left-nested
\* Condition op(n-1)(...op2(op1(t1, t2), t3)..., tn), whatever the
\* connectives are.
C28_LeftAssociative ==
  (/\ last.op = "ParseWhere"
   /\ last.verb \in {"SELECT", "DELETE"}
   /\ last.group = <<0, 0>>
   /\ last.tail = << >>)
    => /\ last.result.ok
       /\ last.result.value.filter
            = LeftNested(TermsOf(last.chain), OpsOf(last.chain))

\* `a = 1 OR b = 2 AND c >= 3` has been parsed
C28_Witness ==
  /\ last.op = "ParseWhere"
  /\ last.verb = "SELECT"
  /\ last.input = <<Term("a", "=", <<49>>), Word("OR"), Term("b", "=", <<50>>),
                    Word("AND"), Term("c", ">=", <<51>>)>>
  /\ last.result.ok
  /\ last.result.value.filter.op = "And"
  /\ last.result.value.filter.left.op = "Or"

\* the Condition of a chain whose terms g[1]..g[2] form a parenthesised
\* group: the group is one operand of the left-nested chain around it
GroupCondition(chain, g) ==
  LeftNested(SubSeq(TermsOf(chain), g[1], g[2]),
             SubSeq(OpsOf(chain), g[1], g[2] - 1))
Nested(chain, g) ==
  LeftNested(SubSeq(TermsOf(chain), 1, g[1] - 1)
               \o <<GroupCondition(chain, g)>>
               \o SubSeq(TermsOf(chain), g[2] + 1, TermCount(chain)),
             SubSeq(OpsOf(chain), 1, g[1] - 1)
               \o SubSeq(OpsOf(chain), g[2], TermCount(chain) - 1))

\* C29: a parenthesised group is accepted in any term position of a
\* condition, first, middle or last, and parses to the nested Condition of
\* its contents.
C29_GroupAnywhere ==
  (/\ last.op = "ParseWhere"
   /\ last.verb \in {"SELECT", "DELETE"}
   /\ last.group # <<0, 0>>
   /\ last.tail = << >>)
    => /\ last.result.ok
       /\ last.result.value.filter = Nested(last.chain, last.group)

\* C30: a SELECT, UPDATE or DELETE is accepted only when its condition
\* takes up the whole text after WHERE: with input left over after the last
\* condition that parses, the command is rejected.  (Stated for conditions
\* without parentheses.)
C30_StrictEndOfInput ==
  (last.op = "ParseWhere" /\ last.group = <<0, 0>> /\ last.result.ok)
    => parse_condition(last.input).rest = << >>

(***************************************************************************)
(* The other operations of an index (index.rs): range and prefix queries, *)
(* add and remove, each applied once to an index map.                     *)
(***************************************************************************)
\* results.extend(object_ids) over the keys chosen, in their order
RECURSIVE extend(_, _)
extend(index_map, keys) ==
  IF keys = << >> THEN << >>
  ELSE index_map[Head(keys)] \o extend(index_map, Tail(keys))

\* the comparison of two Strings that each RangeOp stands for
compare(key, value, op) ==
  IF op = "GreaterThan" THEN LexLess(value, key)
  ELSE IF op = "GreaterThanOrEqual" THEN ~LexLess(key, value)
  ELSE IF op = "LessThan" THEN LexLess(key, value)
  ELSE ~LexLess(value, key)

query_range_inclusive(index_map, value, op) ==
  extend(index_map,
         SelectSeq(SortedKeys(DOMAIN index_map),
                   LAMBDA key : key = value \/ compare(key, value, op)))

\* query_range: the map is walked in key order, the lists of the keys that
\* compare are collected and then concatenated
query_range(index_map, value, op) ==
  extend(index_map,
         SelectSeq(SortedKeys(DOMAIN index_map),
                   LAMBDA key : compare(key, value, op)))

\* str::starts_with
starts_with(k, prefix) ==
  Len(prefix) <= Len(k) /\ SubSeq(k, 1, Len(prefix)) = prefix

RECURSIVE take_while(_, _)
take_while(keys, prefix) ==
  IF keys = << >> THEN << >>
  ELSE IF starts_with(Head(keys), prefix)
  THEN <<Head(keys)>> \o take_while(Tail(keys), prefix)
  ELSE << >>

query_prefix_above(index_map, prefix) ==
  extend(index_map,
         take_while(SelectSeq(SortedKeys(DOMAIN index_map),
                              LAMBDA key : LexLess(prefix, key)),
                    prefix))

\* query_prefix: index_map.range(prefix..).take_while(starts_with)
query_prefix(index_map, prefix) ==
  extend(index_map,
         take_while(SelectSeq(SortedKeys(DOMAIN index_map),
                              LAMBDA key : ~LexLess(key, prefix)),
                    prefix))

\* the keys "1", "10" and "2", and the strings asked for
OpKeys == {<<49>>, <<49, 48>>, <<50>>}
QueryStrings == OpKeys \cup {<< >>, <<48>>}
RangeOps ==
  {"GreaterThan", "GreaterThanOrEqual", "LessThan", "LessThanOrEqual"}
OpMaps == UNION {[ks -> LocatorLists] : ks \in SUBSET OpKeys}

QueryRange ==
  /\ last.op = "None"
  /\ \E index_map \in OpMaps, value \in QueryStrings, op \in RangeOps :
       last' = [op |-> "QueryRange", index_map |-> index_map, value |-> value,
                range |-> op, result |-> query_range(index_map, value, op)]
  /\ UNCHANGED <<data_objects, files>>
  /\ UNCHANGED netvars

QueryPrefix ==
  /\ last.op = "None"
  /\ \E index_map \in OpMaps, prefix \in QueryStrings :
       last' = [op |-> "QueryPrefix", index_map |-> index_map,
                value |-> prefix, result |-> query_prefix(index_map, prefix)]
  /\ UNCHANGED <<data_objects, files>>
  /\ UNCHANGED netvars

IndexAdd ==
  /\ last.op = "None"
  /\ \E index_map \in OpMaps, value \in OpKeys, object_id \in IndexLocators :
       last' = [op |-> "IndexAdd", index_map |-> index_map, value |-> value,
                object_id |-> object_id,
                result |-> Index_add_to_index(index_map, value, object_id)]
  /\ UNCHANGED <<data_objects, files>>
  /\ UNCHANGED netvars

IndexRemove ==
  /\ last.op = "None"
  /\ \E index_map \in OpMaps, value \in OpKeys, object_id \in IndexLocators :
       last' = [op |-> "IndexRemove", index_map |-> index_map, value |-> value,
                object_id |-> object_id,
                result |-> Index_remove_from_index(index_map, value, object_id)]
  /\ UNCHANGED <<data_objects, files>>
  /\ UNCHANGED netvars

IndexOpsNext == QueryRange \/ QueryPrefix \/ IndexAdd \/ IndexRemove

SpecIndexOps == Init /\ [][IndexOpsNext]_vars

\* the number of locators under the keys of a set
RECURSIVE SumLen(_, _)
SumLen(index_map, keys) ==
  IF keys = {} THEN 0
  ELSE LET k == CHOOSE x \in keys : TRUE
       IN Len(index_map[k]) + SumLen(index_map, keys \ {k})

\* result is the lists of the keys of the set, one after the other in
\* ascending key order, each list as it is stored
InKeyOrder(result, index_map, keys) ==
  /\ Len(result) = SumLen(index_map, keys)
  /\ \A k \in keys :
       \A i \in 1..Len(index_map[k]) :
         result[SumLen(index_map, {o \in keys : LexLess(o, k)}) + i]
           = index_map[k][i]

\* C31: a range query returns the locators of exactly the keys that compare
\* to the value under the operator in the order of strings ("10" is below
\* "2"), key by key in ascending order, within a key in insertion order.
C31_RangeByStringOrder ==
  last.op = "QueryRange" =>
    InKeyOrder(last.result, last.index_map,
      {k \in DOMAIN last.index_map :
         \/ last.range = "GreaterThan" /\ LexLess(last.value, k)
         \/ last.range = "GreaterThanOrEqual" /\ (k = last.value \/ LexLess(last.value, k))
         \/ last.range = "LessThan" /\ LexLess(k, last.value)
         \/ last.range = "LessThanOrEqual" /\ (k = last.value \/ LexLess(k, last.value))})

\* keys "1", "10" and "2" asked for what is below "2": the locators of "1",
\* then those of "10", and not those of "2"
C31_Witness ==
  /\ last.op = "QueryRange"
  /\ last.range = "LessThan"
  /\ last.value = <<50>>
  /\ DOMAIN last.index_map = OpKeys
  /\ last.index_map[<<49>>] = <<IndexId(1, 1)>>
  /\ last.index_map[<<49, 48>>] = <<IndexId(0, 1), IndexId(1, 1)>>
  /\ last.index_map[<<50>>] = <<IndexId(0, 1)>>
  /\ last.result = <<IndexId(1, 1), IndexId(0, 1), IndexId(1, 1)>>

\* C32: a prefix query returns the locators of every key that starts with
\* the string asked for and of no other key, for every map and every
\* string, the empty one included.
C32_PrefixExact ==
  last.op = "QueryPrefix" =>
    InKeyOrder(last.result, last.index_map,
      {k \in DOMAIN last.index_map :
         /\ Len(last.value) <= Len(k)
         /\ \A i \in 1..Len(last.value) : k[i] = last.value[i]})

\* keys "1", "10" and "2" asked for the prefix "1": the locators of "1" and
\* of "10", the scan stops at "2"
C32_Witness ==
  /\ last.op = "QueryPrefix"
  /\ last.value = <<49>>
  /\ DOMAIN last.index_map = OpKeys
  /\ last.index_map[<<49>>] = <<IndexId(0, 1)>>
  /\ last.index_map[<<49, 48>>] = <<IndexId(1, 1)>>
  /\ last.index_map[<<50>>] = <<IndexId(0, 1), IndexId(1, 1)>>
  /\ last.result = <<IndexId(0, 1), IndexId(1, 1)>>

\* C33: add appends the locator at the end of the list of its key, creating
\* the entry when the key is absent; a locator already in the list is kept
\* a second time, and the lists of all other keys stay as they were.
C33_AddAppends ==
  last.op = "IndexAdd" =>
    /\ DOMAIN last.result = DOMAIN last.index_map \cup {last.value}
    /\ last.result[last.value] =
         (IF last.value \in DOMAIN last.index_map
          THEN last.index_map[last.value] ELSE << >>) \o <<last.object_id>>
    /\ \A k \in DOMAIN last.index_map \ {last.value} :
         last.result[k] = last.index_map[k]
    /\ Index_query_equal(last.result, last.value) = last.result[last.value]

\* a locator is added to a key whose list already ends with it, next to
\* another key
C33_Witness ==
  /\ last.op = "IndexAdd"
  /\ last.value = <<49>>
  /\ last.object_id = IndexId(0, 1)
  /\ DOMAIN last.index_map = {<<49>>, <<50>>}
  /\ last.index_map[<<49>>] = <<IndexId(1, 1), IndexId(0, 1)>>
  /\ last.result[<<49>>] = <<IndexId(1, 1), IndexId(0, 1), IndexId(0, 1)>>

\* C34: remove takes every occurrence of the locator out of the list of its
\* key and keeps the other locators in order; an absent key changes
\* nothing, the other keys stay as they were, and a key whose last locator
\* was removed stays in the map with an empty list.
C34_RemoveAll ==
  last.op = "IndexRemove" =>
    /\ DOMAIN last.result = DOMAIN last.index_map
    /\ \A k \in DOMAIN last.index_map \ {last.value} :
         last.result[k] = last.index_map[k]
    /\ last.value \in DOMAIN last.index_map =>
         LET old == last.index_map[last.value]
             new == last.result[last.value]
             kept == {i \in 1..Len(old) : old[i] # last.object_id}
         IN /\ Len(new) = Cardinality(kept)
            /\ \A i \in kept :
                 new[Cardinality({j \in kept : j <= i})] = old[i]

\* the locator is the whole list of its key, twice: the key stays with an
\* empty list, next to another key that holds the same locator
C34_Witness ==
  /\ last.op = "IndexRemove"
  /\ last.value = <<49>>
  /\ last.object_id = IndexId(0, 1)
  /\ DOMAIN last.index_map = {<<49>>, <<50>>}
  /\ last.index_map[<<49>>] = <<IndexId(0, 1), IndexId(0, 1)>>
  /\ last.index_map[<<50>>] = <<IndexId(0, 1), IndexId(1, 1)>>
  /\ last.result[<<49>>] = << >>

\* C35: an UPDATE whose WHERE clause is `c1 and c2 and c3`, with the
\* connective in lower case, parses to an Update of the table whose filter
\* is And(c1, And(c2, c3)).
C35_UpdateLowerCaseAnd ==
  (/\ last.op = "ParseWhere"
   /\ last.verb = "UPDATE"
   /\ last.input = <<Term("a", "=", <<49>>), Word("and"), Term("b", "=", <<50>>),
                     Word("and"), Term("c", ">=", <<51>>)>>)
    => /\ last.result.ok
       /\ last.result.value.table_name = "user"
       /\ last.result.value.filter =
            And(Equal("a", <<49>>),
                And(Equal("b", <<50>>),
                    [op |-> "GreaterThanOrEqual", attr |-> "c", value |-> <<51>>]))

\* C36: an Update keeps the identity of a record: the n-th record a
\* successful Update appends has the object_id of the n-th old record it
\* supersedes.
C36_UpdateKeepsObjectId ==
  [][(/\ last'.op = "Update"
      /\ Exists(last'.table)
      /\ last'.resp.t = "Data")
       => \A n \in 1..Len(Matched) :
            files'[last'.table].dat[Len(Log(last'.table)) + n].rec.object_id
              = ReadAt(Log(last'.table), Matched[n]).rec.object_id]_vars


(***************************************************************************)
(* Chains of updates: the commands of the store on a log long enough for   *)
(* an Update to follow an Update.                                          *)
(***************************************************************************)
MaxChain == 5

ChainRoom(table) ==
  IF files'[table] = NoDir THEN TRUE ELSE Len(files'[table].dat) <= MaxChain

\* Uuid::new_v4 on the longer log
ChainUuid(table) ==
  Uuid(CHOOSE n \in 1..(MaxChain + 1) :
         /\ Uuid(n) \notin UsedIds(table)
         /\ \A m \in 1..(n - 1) : Uuid(m) \in UsedIds(table))

ChainInsert ==
  \E table \in TableNames :
    /\ DB_handle_insert(
         parse_insert_command(table, <<Member("name", JString(S_a))>>,
                              ChainUuid(table)).insert_data)
    /\ ChainRoom(table)
    /\ UNCHANGED netvars

ChainUpdate ==
  \E table \in TableNames, obj \in UpdateJson, filter \in Conditions :
    /\ DB_handle_update(parse_update_command(table, obj), filter)
    /\ ChainRoom(table)
    /\ UNCHANGED netvars

ChainNext == Define \/ ChainInsert \/ ChainUpdate \/ Delete \/ Load

SpecChain == Init /\ [][ChainNext]_vars


\* the locators the attribute indexes of table t hold after the step
AttributeLocatorsNext(t) ==
  UNION {UNION {{IndexOfNext(t, a)[k][i] : i \in 1..Len(IndexOfNext(t, a)[k])} :
                  k \in DOMAIN IndexOfNext(t, a)} :
           a \in DOMAIN data_objects'[t].index \ {OBJECT_ID}}

\* the inactive records of a log
Inactive(dat) == {i \in 1..Len(dat) : ~dat[i].rec.active}

LocatorsOf(t) ==
  UNION {UNION {{IndexOf(t, a)[k][i] : i \in 1..Len(IndexOf(t, a)[k])} :
                  k \in DOMAIN IndexOf(t, a)} :
           a \in DOMAIN data_objects[t].index}

\* C38: locator validity: every locator an index of a table holds addresses a
\* span inside the table's log that is exactly one stored record, and the
\* spans of the stored records follow one another without overlap.
C38_LocatorValidity ==
  \A t \in Defined :
    /\ \A id \in LocatorsOf(t) :
         /\ id.position + id.length <= FileLen(Log(t))
         /\ \E i \in Entries(t) : LocatorOf(Log(t), i) = id
    /\ \A i \in Entries(t) :
         i > 1 => Log(t)[i].position
                    = Log(t)[i - 1].position + Log(t)[i - 1].length

\* the replies "Database created" the connections have been sent
Created ==
  {<<c, i>> \in Conns \X (1..MaxMsgs) :
     /\ i <= Len(conn[c].outbox)
     /\ conn[c].outbox[i].text = "Database created"}

\* C39: of the CREATE messages for one absent database name at most one is
\* answered "Database created" (DbNames holds one name, so the replies of
\* all connections are replies for that name).
C39_OneCreated == Cardinality(Created) <= 1

(***************************************************************************)
(* Progress of the handlers on the registry lock.                          *)
(***************************************************************************)
\* the database operation panics inside the handler (an unwrap on a failed
\* file operation): the task of the connection unwinds, which drops the
\* guard it holds, and the connection is gone
Panic(c) ==
  /\ conn[c].pc = "exec"
  /\ conn' = [conn EXCEPT ![c] = [@ EXCEPT !.pc = "closed", !.buffer = << >>]]
  /\ lock' = release(lock, c)
  /\ UNCHANGED <<databases, disk>>
  /\ UNCHANGED storevars

NetPanic == \E c \in Conns : Panic(c)

\* a step of the task that serves connection c
Task(c) ==
  \/ Read(c) \/ CreateCheck(c) \/ NewExists(c) \/ CreateDir(c) \/ Register(c)
  \/ Acquire(c) \/ Exec(c) \/ Panic(c) \/ Write(c)

FairNext == NetNext \/ NetPanic

\* the runtime schedules every task that can run, and a client reads its
\* replies, so that write_all completes
SpecNetFair ==
  NetInit /\ [][FairNext]_vars /\ \A c \in Conns : WF_vars(Task(c))

\* the handler of c is at an await of the registry lock
Waiting(c) == conn[c].pc \in {"create_check", "register", "lock"}

\* C40: lock progress: a handler holds a guard of the registry lock only
\* while it runs its command and writes the reply, never a read and a write
\* guard together, and a handler that waits for the lock eventually gets it.
C40_LockProgress ==
  /\ [](\A c \in Conns :
          /\ HoldsGuard(c) => conn[c].pc \in {"exec", "write"}
          /\ ~(lock.writer = c /\ c \in lock.readers))
  /\ \A c \in Conns : Waiting(c) ~> ~Waiting(c)

\* a handler waits for a write guard while the other connection holds a guard
C40_Witness ==
  \E c, d \in Conns :
    /\ c # d
    /\ conn[c].pc = "lock"
    /\ guard_of(conn[c].cur.kind) = "write"
    /\ HoldsGuard(d)

====
